---- MODULE Spec2Model ----
(***************************************************************************)
(* Model of building() of data_acquisition.py (fmenti/life): the merge of  *)
(* the provider extracts into the tables of the LIFE target database.      *)
(*                                                                         *)
(* Strings that the code splits, joins or strips (the identifier strings)  *)
(* are sequences of one-character strings.  Strings that the code only     *)
(* compares and sorts (main_id, references) are natural numbers standing   *)
(* for names in alphabetical order.  An astropy table is a sequence of     *)
(* records, one record per row, one field per column.                      *)
(***************************************************************************)
EXTENDS Integers, Sequences, FiniteSets, TLC

VARIABLES
    ids_1,        \* idsjoin: cell of column_ids1 of the row
    ids_2,        \* idsjoin: cell of column_ids2 of the row
    ids,          \* idsjoin: cat['ids'][i] for the row (ids_1, ids_2)
    ids_swapped,  \* idsjoin: cat['ids'][i] for the row (ids_2, ids_1)
    ipc,          \* position of the idsjoin runs
    providers,    \* building: the provider extracts, one list of tables each
    cat,          \* building: the tables being built, by table name
    teff_st_best_para, \* building: the table best_para('teff_st', ...) returned
    pc,           \* building: the statement to run next
    j,            \* building: index of the provider being folded
    ref_cat,      \* sources_table: the argument cat of the last call
    ref_provider, \* sources_table: the argument provider of the last call
    old_sources,  \* sources_table: the argument old_sources of the last call
    ret_sources,  \* sources_table: the table sources the last call returned
    spc,          \* sources_table: "call", or "error" once a call has raised
    mpc,          \* main code: the provider call to run next
    run,          \* main code: number of the run of the script
    data,         \* main code: data/<name>.xml, the run that wrote each file
    loaded        \* main code: the load() calls of this run

idsvars == <<ids_1, ids_2, ids, ids_swapped, ipc>>
buildvars == <<providers, cat, teff_st_best_para, pc, j>>
srcvars == <<ref_cat, ref_provider, old_sources, ret_sources, spc>>
mainvars == <<mpc, run, data, loaded>>
vars == <<ids_1, ids_2, ids, ids_swapped, ipc,
          providers, cat, teff_st_best_para, pc, j,
          ref_cat, ref_provider, old_sources, ret_sources, spc,
          mpc, run, data, loaded>>

----------------------------------------------------------------------------
(* Bounds *)

MaxIdsLen == 3
\* providers folded (the pipeline folds six, line 1984)
NumProviders == 3
\* distinct main_id names, 1..MaxMainId in alphabetical order
MaxMainId == 2
\* rows of one table of a provider extract
MaxRows == 2
\* distinct references, 1..MaxRef in alphabetical order
MaxRef == 2
\* distinct measured values
MaxValue == 2
\* runs of the script, one after the other on the same data directory
MaxRuns == 2

----------------------------------------------------------------------------
(* Strings *)

Chars == {"a", "b", "|"}

Strings(n) == UNION {[1..k -> Chars] : k \in 0..n}

Range(s) == {s[i] : i \in 1..Len(s)}

\* a masked cell of a string column
MaskedIds == <<"--">>

\* index of the first '|' of s, 0 if there is none
FirstSep(s) ==
    IF \E i \in 1..Len(s) : s[i] = "|"
    THEN CHOOSE i \in 1..Len(s) : s[i] = "|" /\ \A k \in 1..(i-1) : s[k] # "|"
    ELSE 0

\* str.split('|'): the pieces between separators; ''.split('|') is ['']
RECURSIVE split(_)
split(s) ==
    LET i == FirstSep(s)
    IN  IF i = 0 THEN <<s>>
        ELSE <<SubSeq(s, 1, i-1)>> \o split(SubSeq(s, i+1, Len(s)))

\* "|".join(l)
RECURSIVE join(_)
join(l) ==
    IF Len(l) = 0 THEN <<>>
    ELSE IF Len(l) = 1 THEN l[1]
    ELSE l[1] \o <<"|">> \o join(Tail(l))

\* str.strip('|'): leading and trailing separators removed
RECURSIVE strip(_)
strip(s) ==
    IF Len(s) = 0 THEN s
    ELSE IF s[1] = "|" THEN strip(Tail(s))
    ELSE IF s[Len(s)] = "|" THEN strip(SubSeq(s, 1, Len(s)-1))
    ELSE s

\* list(set(ids)): the elements of a set in an order the hash seed decides
RECURSIVE ListsOf(_)
ListsOf(S) ==
    IF S = {} THEN {<<>>}
    ELSE UNION {{<<x>> \o l : l \in ListsOf(S \ {x})} : x \in S}

\* nullvalues(cat, colname, nullvalue) on one cell
nullvalues(cell, nullvalue) == IF cell = MaskedIds THEN nullvalue ELSE cell

----------------------------------------------------------------------------
(* idsjoin *)

\* a plausible bug: the second identifier list is dropped from the union
idsjoin_row_first_only(c1, c2) ==
    LET v1 == nullvalues(c1, <<>>)
        v2 == nullvalues(c2, <<>>)
        ids1 == split(v1)
        ids2 == split(v2)
    IN  IF ids2 = << <<>> >> THEN {strip(v1)}
        ELSE IF ids1 = << <<>> >> THEN {strip(v2)}
        ELSE {strip(join(l)) : l \in ListsOf(Range(ids1))}

\* a plausible bug: the shortcut for an empty first column returns it
idsjoin_row_empty_first(c1, c2) ==
    LET v1 == nullvalues(c1, <<>>)
        v2 == nullvalues(c2, <<>>)
        ids1 == split(v1)
        ids2 == split(v2)
    IN  IF ids2 = << <<>> >> THEN {strip(v1)}
        ELSE IF ids1 = << <<>> >> THEN {strip(v1)}
        ELSE {strip(join(l)) : l \in ListsOf(Range(ids1 \o ids2))}

\* the values cat['ids'][i] can take for a row with the cells c1, c2
idsjoin_row(c1, c2) ==
    LET v1 == nullvalues(c1, <<>>)
        v2 == nullvalues(c2, <<>>)
        ids1 == split(v1)
        ids2 == split(v2)
    IN  IF ids2 = << <<>> >> THEN {strip(v1)}
        ELSE IF ids1 = << <<>> >> THEN {strip(v2)}
        ELSE {strip(join(l)) : l \in ListsOf(Range(ids1 \o ids2))}

\* building() is not running while idsjoin is exercised alone
\* sources_table is not being called on its own
\* the files of the SIMBAD extract that other providers load
SimFiles == {"sim_objects", "sim_ident", "sim_h_link", "sim_star_basic"}

\* data/<name>.xml does not exist
NoFile == MaxRuns + 1

\* the main code is not running
MainIdle ==
    /\ mpc = "idle"
    /\ run = 0
    /\ data = [f \in SimFiles |-> NoFile]
    /\ loaded = {}

SrcIdle ==
    /\ ref_cat = <<>>
    /\ ref_provider = ""
    /\ old_sources = <<>>
    /\ ret_sources = <<>>
    /\ spc = "idle"

BuildIdle ==
    /\ providers = <<>>
    /\ cat = <<>>
    /\ teff_st_best_para = <<>>
    /\ pc = "idle"
    /\ j = 1

InitIds ==
    /\ ids_1 \in Strings(MaxIdsLen) \cup {MaskedIds}
    /\ ids_2 \in Strings(MaxIdsLen) \cup {MaskedIds}
    /\ ids = <<>>
    /\ ids_swapped = <<>>
    /\ ipc = "input"
    /\ BuildIdle
    /\ SrcIdle
    /\ MainIdle

\* idsjoin(cat,'ids_1','ids_2') on the row (ids_1, ids_2)
Idsjoin ==
    /\ ipc = "input"
    /\ ids' \in idsjoin_row(ids_1, ids_2)
    /\ ipc' = "joined"
    /\ UNCHANGED <<ids_1, ids_2, ids_swapped>>
    /\ UNCHANGED buildvars
    /\ UNCHANGED srcvars
    /\ UNCHANGED mainvars

\* idsjoin(cat,'ids_2','ids_1'): the same row with the columns exchanged
IdsjoinSwapped ==
    /\ ipc = "joined"
    /\ ids_swapped' \in idsjoin_row(ids_2, ids_1)
    /\ ipc' = "swapped"
    /\ UNCHANGED <<ids_1, ids_2, ids>>
    /\ UNCHANGED buildvars
    /\ UNCHANGED srcvars
    /\ UNCHANGED mainvars

NextIds == Idsjoin \/ IdsjoinSwapped

SpecIds == InitIds /\ [][NextIds]_vars

----------------------------------------------------------------------------
(* Claims on idsjoin *)

\* the identifiers of a pipe-delimited string: its non-empty pieces
\* (the empty string holds none)
ElemSet(s) == {p \in Range(split(nullvalues(s, <<>>))) : p # <<>>}

\* C1: the identifiers of the merged string are exactly those of the first
\* column together with those of the second: none is lost, none is invented.
C1_IdsUnion ==
    ipc # "input" => ElemSet(ids) = ElemSet(ids_1) \cup ElemSet(ids_2)

\* C1 witness: both columns hold identifiers, they share one, the first has
\* one the second lacks, and the merge has run
C1_Witness ==
    /\ ipc = "joined"
    /\ ElemSet(ids_1) \cap ElemSet(ids_2) # {}
    /\ ElemSet(ids_1) \ ElemSet(ids_2) # {}
    /\ Cardinality(ElemSet(ids)) = 2

\* C2: the merge is commutative and idempotent up to the set of identifiers:
\* exchanging the columns gives the same identifiers, and merging a string
\* with itself gives the identifiers of the string.
C2_IdsCommIdem ==
    ipc = "swapped" =>
        /\ ElemSet(ids) = ElemSet(ids_swapped)
        /\ (ids_1 = ids_2 => ElemSet(ids) = ElemSet(ids_1))

\* C2 witness: two different non-empty strings merged in both orders, the
\* two results differing as strings
C2_Witness ==
    /\ ipc = "swapped"
    /\ ElemSet(ids_1) # ElemSet(ids_2)
    /\ ElemSet(ids_1) # {}
    /\ ElemSet(ids_2) # {}
    /\ ids # ids_swapped

----------------------------------------------------------------------------
(* Tables *)

\* a masked cell of an integer column (real cells are 1 or more)
MaskedInt == 0

\* a masked cell of a column of short strings (type, quality)
MaskedStr == "--"

\* numpy's fill value of a masked integer cell, also the code's null source
IntFillValue == 999999

\* Table.filled() of a masked float cell (1e20); it sorts after every value
FloatFillValue == MaxValue + 1

\* the fold order of building(providers, ...)
ProviderNames ==
    <<"SIMBAD", "Grant Kennedy Disks", "Exo-MerCat", "LIFE", "Gaia", "WDS">>

\* alphabetical rank of a provider name, the order unique() sorts by
NameRank(name) ==
    CASE name = "Exo-MerCat" -> 1
      [] name = "Gaia" -> 2
      [] name = "Grant Kennedy Disks" -> 3
      [] name = "LIFE" -> 4
      [] name = "SIMBAD" -> 5
      [] name = "WDS" -> 6

\* lexicographic order of two tuples of integers of the same length
RECURSIVE LexLess(_, _)
LexLess(a, b) ==
    IF Len(a) = 0 THEN FALSE
    ELSE IF a[1] # b[1] THEN a[1] < b[1]
    ELSE LexLess(Tail(a), Tail(b))

\* the rows of the set S in ascending order of Key, which tells them apart
SortSet(S, Key(_)) ==
    LET Pos(x) == 1 + Cardinality({y \in S : LexLess(Key(y), Key(x))})
    IN  [i \in 1..Cardinality(S) |-> CHOOSE x \in S : Pos(x) = i]

\* the table t in ascending order of Key, rows of equal key in their order
SortStable(t, Key(_)) ==
    LET Before(a, b) ==
            \/ LexLess(Key(t[a]), Key(t[b]))
            \/ Key(t[a]) = Key(t[b]) /\ a < b
        Pos(a) == 1 + Cardinality({b \in 1..Len(t) : Before(b, a)})
    IN  [i \in 1..Len(t) |-> t[CHOOSE a \in 1..Len(t) : Pos(a) = i]]

\* astropy.table.unique(t): one row of each kind, sorted by all columns
unique(t, Key(_)) == SortSet(Range(t), Key)

\* n copies of the row x
Copies(x, n) == [i \in 1..n |-> x]

RECURSIVE Flatten(_)
Flatten(ss) == IF Len(ss) = 0 THEN <<>> ELSE ss[1] \o Flatten(Tail(ss))

\* number of rows of t equal to x
Count(t, x) == Cardinality({i \in 1..Len(t) : t[i] = x})

\* astropy.table.join(L, R, join_type='outer') of two tables with the same
\* columns, all of them keys: sorted by the keys, a row that is in both
\* tables once for every pair of equal rows
join_outer_all(L, R, Key(_)) ==
    LET D == SortSet(Range(L) \cup Range(R), Key)
        N(x) == IF Count(L, x) > 0 /\ Count(R, x) > 0
                THEN Count(L, x) * Count(R, x)
                ELSE Count(L, x) + Count(R, x)
    IN  Flatten([i \in 1..Len(D) |-> Copies(D[i], N(D[i]))])

\* all tables of at most n rows drawn from Rows
Tables(Rows, n) == UNION {[1..k -> Rows] : k \in 0..n}

----------------------------------------------------------------------------
(* building: sources *)

SourceKey(r) == <<r.ref, NameRank(r.provider_name)>>

\* a plausible bug: an empty provider table replaces the accumulated table
sources_fold_empty_resets(acc, t) ==
    IF Len(acc) > 0 /\ Len(t) > 0 THEN join_outer_all(acc, t, SourceKey) ELSE t

\* lines 1636-1642, one provider
sources_fold(acc, t) ==
    IF Len(acc) > 0
    THEN IF Len(t) > 0 THEN join_outer_all(acc, t, SourceKey) ELSE acc
    ELSE t

\* a plausible bug: the ids are given before the double rows are removed
sources_finish_id_first(acc) ==
    LET n == [i \in 1..Len(acc) |->
                 [ref |-> acc[i].ref, provider_name |-> acc[i].provider_name,
                  source_id |-> i + 1]]
        Key(r) == <<r.ref, NameRank(r.provider_name), r.source_id>>
    IN  unique(n, Key)

\* lines 1645-1650: unique rows, then source_id 1..N in row order
sources_finish(acc) ==
    LET u == unique(acc, SourceKey)
    IN  [i \in 1..Len(u) |->
            [ref |-> u[i].ref, provider_name |-> u[i].provider_name,
             source_id |-> i]]

SourcesFold ==
    /\ pc = "sources"
    /\ cat' = [cat EXCEPT !.sources = sources_fold(@, providers[j].sources)]
    /\ IF j < NumProviders
       THEN /\ j' = j + 1
            /\ pc' = pc
       ELSE /\ j' = 1
            /\ pc' = "source_id"
    /\ UNCHANGED <<providers, teff_st_best_para>>
    /\ UNCHANGED idsvars
    /\ UNCHANGED srcvars
    /\ UNCHANGED mainvars

SourcesFinish ==
    /\ pc = "source_id"
    /\ cat' = [cat EXCEPT !.sources = sources_finish(@)]
    /\ pc' = "objects"
    /\ UNCHANGED <<providers, teff_st_best_para, j>>
    /\ UNCHANGED idsvars
    /\ UNCHANGED srcvars
    /\ UNCHANGED mainvars

----------------------------------------------------------------------------
(* building: objects *)

\* the rows of t with main_id k
WithMainId(t, k) ==
    LET Test(r) == r.main_id = k
    IN  SelectSeq(t, Test)

\* one row of the joined table; l or r is <<>> for a row of one table only
joined_row(k, l, r) ==
    [main_id |-> k,
     ids_1 |-> IF l = <<>> THEN MaskedIds ELSE l.ids,
     type_1 |-> IF l = <<>> THEN MaskedStr ELSE l.type,
     ids_2 |-> IF r = <<>> THEN MaskedIds ELSE r.ids,
     type_2 |-> IF r = <<>> THEN MaskedStr ELSE r.type]

\* the joined rows of main_id k: every pair of a left and a right row
join_group(L, R, k) ==
    LET Lk == WithMainId(L, k)
        Rk == WithMainId(R, k)
    IN  IF Len(Lk) > 0 /\ Len(Rk) > 0
        THEN [i \in 1..(Len(Lk) * Len(Rk)) |->
                 joined_row(k, Lk[((i - 1) \div Len(Rk)) + 1],
                               Rk[((i - 1) % Len(Rk)) + 1])]
        ELSE IF Len(Lk) > 0
        THEN [i \in 1..Len(Lk) |-> joined_row(k, Lk[i], <<>>)]
        ELSE [i \in 1..Len(Rk) |-> joined_row(k, <<>>, Rk[i])]

\* a plausible bug: a left join, which drops the objects that only the
\* provider's table has
join_objects_left(L, R) ==
    Flatten([k \in 1..MaxMainId |->
                IF Len(WithMainId(L, k)) > 0 THEN join_group(L, R, k) ELSE <<>>])

\* astropy.table.join(L, R, keys='main_id', join_type='outer'), line 1717
join_objects(L, R) ==
    Flatten([k \in 1..MaxMainId |-> join_group(L, R, k)])

\* a plausible bug: a second type 'None' is not recognised as unknown
merged_type_none_wins(row) ==
    IF row.type_2 = MaskedStr
    THEN row.type_1
    ELSE row.type_2

\* lines 1703-1707 on one row
merged_type(row) ==
    IF row.type_2 = MaskedStr \/ row.type_2 = "None"
    THEN row.type_1
    ELSE row.type_2

\* the rows objectmerging can make of one joined row
objectmerging_row(row) ==
    {[main_id |-> row.main_id, ids |-> i, type |-> merged_type(row)] :
        i \in idsjoin_row(row.ids_1, row.ids_2)}

\* objectmerging(cat), lines 1687-1709: the tables it can return
RECURSIVE objectmerging(_)
objectmerging(t) ==
    IF Len(t) = 0 THEN {<<>>}
    ELSE {<<row>> \o rest :
            row \in objectmerging_row(t[1]), rest \in objectmerging(Tail(t))}

\* lines 1713-1717 and 1719-1720, one provider: join, or take the table
ObjectsFold ==
    /\ pc = "objects"
    /\ IF Len(cat.objects) > 0
       THEN IF Len(providers[j].objects) > 0
            THEN /\ cat' = [cat EXCEPT
                       !.objects = join_objects(@, providers[j].objects)]
                 /\ pc' = "objectmerging"
                 /\ j' = j
            ELSE /\ cat' = cat
                 /\ pc' = IF j < NumProviders THEN pc ELSE "object_id"
                 /\ j' = IF j < NumProviders THEN j + 1 ELSE 1
       ELSE /\ cat' = [cat EXCEPT !.objects = providers[j].objects]
            /\ pc' = IF j < NumProviders THEN pc ELSE "object_id"
            /\ j' = IF j < NumProviders THEN j + 1 ELSE 1
    /\ UNCHANGED <<providers, teff_st_best_para>>
    /\ UNCHANGED idsvars
    /\ UNCHANGED srcvars
    /\ UNCHANGED mainvars

\* line 1718
Objectmerging ==
    /\ pc = "objectmerging"
    /\ \E t \in objectmerging(cat.objects) :
           cat' = [cat EXCEPT !.objects = t]
    /\ pc' = IF j < NumProviders THEN "objects" ELSE "object_id"
    /\ j' = IF j < NumProviders THEN j + 1 ELSE 1
    /\ UNCHANGED <<providers, teff_st_best_para>>
    /\ UNCHANGED idsvars
    /\ UNCHANGED srcvars
    /\ UNCHANGED mainvars

\* a plausible bug: the ids start at 0 (range(len) without the + 1)
assign_object_id_from_zero(t) ==
    [i \in 1..Len(t) |->
        [main_id |-> t[i].main_id, ids |-> t[i].ids, type |-> t[i].type,
         object_id |-> i - 1]]

\* line 1725
assign_object_id(t) ==
    [i \in 1..Len(t) |->
        [main_id |-> t[i].main_id, ids |-> t[i].ids, type |-> t[i].type,
         object_id |-> i]]

AssignObjectId ==
    /\ pc = "object_id"
    /\ cat' = [cat EXCEPT !.objects = assign_object_id(@)]
    /\ pc' = "h_link"
    /\ UNCHANGED <<providers, teff_st_best_para, j>>
    /\ UNCHANGED idsvars
    /\ UNCHANGED srcvars
    /\ UNCHANGED mainvars

----------------------------------------------------------------------------
(* building: match *)

\* the reference 'None' that nullvalues puts into a masked reference cell;
\* it sorts after every bibcode
NoneRef == MaxRef + 1

\* the source_id that the left join of line 1746 finds for a reference of
\* the provider, masked if the provider has no such source
source_id_of(sources, ref, provider) ==
    IF \E s \in Range(sources) : s.ref = ref /\ s.provider_name = provider
    THEN (CHOOSE s \in Range(sources) :
              s.ref = ref /\ s.provider_name = provider).source_id
    ELSE MaskedInt

----------------------------------------------------------------------------
(* building: hierarchical links *)

LinkKey(r) == <<r.main_id, r.parent_main_id, r.h_link_ref, r.h_link_source_idref>>

LinkRefKey(r) == <<r.h_link_ref>>

\* match(cat, sources, ['h_link'], provider), lines 1729-1761
match_h_link(t, sources, provider) ==
    LET n == [i \in 1..Len(t) |->
                 [t[i] EXCEPT !.h_link_ref = IF @ = MaskedInt THEN NoneRef ELSE @]]
        s == SortStable(n, LinkRefKey)
    IN  [i \in 1..Len(s) |->
            [main_id |-> s[i].main_id,
             parent_main_id |-> s[i].parent_main_id,
             h_link_ref |-> s[i].h_link_ref,
             h_link_source_idref |->
                 source_id_of(sources, s[i].h_link_ref, provider)]]

\* a join key column of t holds a masked value: the join raises
link_key_masked(t) ==
    \E r \in Range(t) : r.h_link_source_idref = MaskedInt

\* lines 1784-1795 for the table h_link, one provider
HLinkFold ==
    /\ pc = "h_link"
    /\ LET t == providers[j].h_link
           m == IF Len(t) > 0
                THEN match_h_link(t, cat.sources,
                                  providers[j].provider[1].provider_name)
                ELSE t
       IN  /\ providers' = [providers EXCEPT ![j].h_link = m]
           /\ IF Len(cat.h_link) > 0 /\ Len(m) > 0
                 /\ (link_key_masked(cat.h_link) \/ link_key_masked(m))
              THEN /\ pc' = "error"
                   /\ j' = j
                   /\ cat' = cat
              ELSE /\ cat' = [cat EXCEPT !.h_link =
                          IF Len(@) > 0
                          THEN IF Len(m) > 0
                               THEN join_outer_all(@, m, LinkKey)
                               ELSE @
                          ELSE m]
                   /\ pc' = IF j < NumProviders THEN pc ELSE "h_link_rekey"
                   /\ j' = IF j < NumProviders THEN j + 1 ELSE 1
    /\ UNCHANGED teff_st_best_para
    /\ UNCHANGED idsvars
    /\ UNCHANGED srcvars
    /\ UNCHANGED mainvars

\* Table.filled() on the columns of the folded h_link table, line 1799
filled_h_link(t) ==
    [i \in 1..Len(t) |->
        [t[i] EXCEPT !.h_link_source_idref =
                        IF @ = MaskedInt THEN IntFillValue ELSE @]]

ChildKey(r) == <<r.main_id>>

ParentKey(r) == <<r.parent_main_id>>

\* lines 1846-1850: left join on main_id with objects['object_id','main_id']
rekey_child(t, objects) ==
    LET s == SortStable(t, ChildKey)
        Row(r, id) == [child_main_id |-> r.main_id,
                       parent_main_id |-> r.parent_main_id,
                       h_link_ref |-> r.h_link_ref,
                       h_link_source_idref |-> r.h_link_source_idref,
                       child_object_idref |-> id]
        Rows(r) == LET o == WithMainId(objects, r.main_id)
                   IN  IF Len(o) = 0 THEN <<Row(r, MaskedInt)>>
                       ELSE [k \in 1..Len(o) |-> Row(r, o[k].object_id)]
    IN  Flatten([i \in 1..Len(s) |-> Rows(s[i])])

\* lines 1853-1860: inner join of parent_main_id with objects' main_id
rekey_parent(t, objects) ==
    LET s == SortStable(t, ParentKey)
        Rows(r) == LET o == WithMainId(objects, r.parent_main_id)
                   IN  [k \in 1..Len(o) |->
                           [child_main_id |-> r.child_main_id,
                            parent_main_id |-> r.parent_main_id,
                            h_link_ref |-> r.h_link_ref,
                            h_link_source_idref |-> r.h_link_source_idref,
                            child_object_idref |-> r.child_object_idref,
                            parent_object_idref |-> o[k].object_id]]
    IN  Flatten([i \in 1..Len(s) |-> Rows(s[i])])

\* Table.filled() of line 1926 on the re-keyed table
filled_rekeyed(t) ==
    [i \in 1..Len(t) |->
        [t[i] EXCEPT !.child_object_idref =
                        IF @ = MaskedInt THEN IntFillValue ELSE @]]

RekeyedLinkKey(r) ==
    <<r.child_main_id, r.parent_main_id, r.h_link_ref, r.h_link_source_idref,
      r.child_object_idref, r.parent_object_idref>>

\* lines 1797-1804, 1842-1860 and 1926-1927 for the table h_link
h_link_rekey(t, objects) ==
    unique(filled_rekeyed(
               rekey_parent(rekey_child(unique(filled_h_link(t), LinkKey),
                                        objects),
                            objects)),
           RekeyedLinkKey)

\* the table is empty: only the warning of line 1929.  The table has rows
\* and no provider gave an object: cat[1] has no column main_id, KeyError.
HLinkRekey ==
    /\ pc = "h_link_rekey"
    /\ IF Len(cat.h_link) = 0
       THEN /\ cat' = cat
            /\ pc' = "star_basic"
       ELSE IF Len(cat.objects) = 0
       THEN /\ cat' = cat
            /\ pc' = "error"
       ELSE /\ cat' = [cat EXCEPT !.h_link = h_link_rekey(@, cat.objects)]
            /\ pc' = "star_basic"
    /\ UNCHANGED <<providers, teff_st_best_para, j>>
    /\ UNCHANGED idsvars
    /\ UNCHANGED srcvars
    /\ UNCHANGED mainvars

----------------------------------------------------------------------------
(* building: measurements of teff_st *)

MainIdKey(r) == <<r.main_id>>

\* the order of the one-character strings of a quality column (their code
\* points), the order unique() sorts them by
Ord(q) ==
    CASE q = MaskedStr -> 0
      [] q = "?" -> 63
      [] q = "A" -> 65
      [] q = "B" -> 66
      [] q = "C" -> 67
      [] q = "D" -> 68
      [] q = "E" -> 69
      [] q = "N" -> 78

MesKey(r) ==
    <<r.main_id, r.teff_st_value, Ord(r.teff_st_qual), r.teff_st_ref,
      r.teff_st_source_idref>>

MesRefKey(r) == <<r.teff_st_ref>>

\* a plausible bug: the source of a row without a value is not set to null
match_teff_st_keeps_source(t, sources, provider) ==
    LET n == [i \in 1..Len(t) |->
                 [t[i] EXCEPT !.teff_st_ref = IF @ = MaskedInt THEN NoneRef ELSE @]]
        s == SortStable(n, MesRefKey)
    IN  [i \in 1..Len(s) |->
            [main_id |-> s[i].main_id,
             teff_st_value |-> s[i].teff_st_value,
             teff_st_qual |-> s[i].teff_st_qual,
             teff_st_ref |-> s[i].teff_st_ref,
             teff_st_source_idref |->
                 source_id_of(sources, s[i].teff_st_ref, provider)]]

\* a plausible bug: the sources are not restricted to the provider
source_ids_of_any_provider(sources, ref, provider) ==
    LET rows == SelectSeq(sources, LAMBDA s : s.ref = ref)
    IN  [k \in 1..Len(rows) |-> rows[k].source_id]

\* sources['ref','source_id'][np.where(sources['provider_name']==provider)],
\* lines 1746-1747: the source_ids of the rows of the provider with the
\* reference ref, in table order
source_ids_of(sources, ref, provider) ==
    LET rows == SelectSeq(sources,
                    LAMBDA s : s.ref = ref /\ s.provider_name = provider)
    IN  [k \in 1..Len(rows) |-> rows[k].source_id]

\* a plausible bug: an inner join, which drops the rows whose reference has
\* no source
match_teff_st_inner(t, sources, provider) ==
    LET n == [i \in 1..Len(t) |->
                 [t[i] EXCEPT !.teff_st_ref = IF @ = MaskedInt THEN NoneRef ELSE @]]
        s == SortStable(n, MesRefKey)
        Row(r, id) ==
            [main_id |-> r.main_id,
             teff_st_value |-> r.teff_st_value,
             teff_st_qual |-> r.teff_st_qual,
             teff_st_ref |-> r.teff_st_ref,
             teff_st_source_idref |->
                 IF r.teff_st_value = MaskedInt THEN IntFillValue ELSE id]
        Rows(r) ==
            LET sid == source_ids_of(sources, r.teff_st_ref, provider)
            IN  [k \in 1..Len(sid) |-> Row(r, sid[k])]
    IN  Flatten([i \in 1..Len(s) |-> Rows(s[i])])

\* match(cat, sources, ['teff_st'], provider), lines 1729-1761: a masked
\* reference becomes 'None'; the left join on teff_st_ref = ref gives the
\* rows in the order of the key, each once per source row with its
\* reference, or once with a masked source_id when there is none; a row
\* with a masked value gets the source 999999
match_teff_st(t, sources, provider) ==
    LET n == [i \in 1..Len(t) |->
                 [t[i] EXCEPT !.teff_st_ref = IF @ = MaskedInt THEN NoneRef ELSE @]]
        s == SortStable(n, MesRefKey)
        Row(r, id) ==
            [main_id |-> r.main_id,
             teff_st_value |-> r.teff_st_value,
             teff_st_qual |-> r.teff_st_qual,
             teff_st_ref |-> r.teff_st_ref,
             teff_st_source_idref |->
                 IF r.teff_st_value = MaskedInt THEN IntFillValue ELSE id]
        Rows(r) ==
            LET sid == source_ids_of(sources, r.teff_st_ref, provider)
            IN  IF Len(sid) = 0 THEN <<Row(r, MaskedInt)>>
                ELSE [k \in 1..Len(sid) |-> Row(r, sid[k])]
    IN  Flatten([i \in 1..Len(s) |-> Rows(s[i])])

\* a join key column of t holds a masked value: the join raises
mes_key_masked(t) ==
    \E r \in Range(t) :
        \/ r.teff_st_value = MaskedInt
        \/ r.teff_st_qual = MaskedStr
        \/ r.teff_st_source_idref = MaskedInt

\* lines 1784-1795 for the table mes_teff_st, one provider
MesFold ==
    /\ pc = "mes_teff_st"
    /\ LET t == providers[j].mes_teff_st
           m == IF Len(t) > 0
                THEN match_teff_st(t, cat.sources,
                                   providers[j].provider[1].provider_name)
                ELSE t
       IN  /\ providers' = [providers EXCEPT ![j].mes_teff_st = m]
           /\ IF Len(cat.mes_teff_st) > 0 /\ Len(m) > 0
                 /\ (mes_key_masked(cat.mes_teff_st) \/ mes_key_masked(m))
              THEN /\ pc' = "error"
                   /\ j' = j
                   /\ cat' = cat
              ELSE /\ cat' = [cat EXCEPT !.mes_teff_st =
                          IF Len(@) > 0
                          THEN IF Len(m) > 0
                               THEN join_outer_all(@, m, MesKey)
                               ELSE @
                          ELSE m]
                   /\ pc' = IF j < NumProviders THEN pc ELSE "mes_teff_st_best"
                   /\ j' = IF j < NumProviders THEN j + 1 ELSE 1
    /\ UNCHANGED teff_st_best_para
    /\ UNCHANGED idsvars
    /\ UNCHANGED srcvars
    /\ UNCHANGED mainvars

\* Table.filled(), line 1799: a masked quality of a one-character string
\* column becomes 'N', a masked integer 999999
filled_mes(t) ==
    [i \in 1..Len(t) |->
        [t[i] EXCEPT !.teff_st_qual = IF @ = MaskedStr THEN "N" ELSE @,
                     !.teff_st_source_idref =
                         IF @ = MaskedInt THEN IntFillValue ELSE @,
                     !.teff_st_value =
                         IF @ = MaskedInt THEN FloatFillValue ELSE @]]

\* a plausible bug: an inner join, which drops the rows of a main_id that is
\* not in the Object table
rekey_mes_inner(t, objects) ==
    LET s == SortStable(t, MainIdKey)
        Row(r, id) == [main_id |-> r.main_id,
                       teff_st_value |-> r.teff_st_value,
                       teff_st_qual |-> r.teff_st_qual,
                       teff_st_ref |-> r.teff_st_ref,
                       teff_st_source_idref |-> r.teff_st_source_idref,
                       object_idref |-> id]
        Rows(r) == LET o == WithMainId(objects, r.main_id)
                   IN  [k \in 1..Len(o) |-> Row(r, o[k].object_id)]
    IN  Flatten([i \in 1..Len(s) |-> Rows(s[i])])

\* lines 1869-1872: left join on main_id with objects['object_id','main_id']
rekey_mes(t, objects) ==
    LET s == SortStable(t, MainIdKey)
        Row(r, id) == [main_id |-> r.main_id,
                       teff_st_value |-> r.teff_st_value,
                       teff_st_qual |-> r.teff_st_qual,
                       teff_st_ref |-> r.teff_st_ref,
                       teff_st_source_idref |-> r.teff_st_source_idref,
                       object_idref |-> id]
        Rows(r) == LET o == WithMainId(objects, r.main_id)
                   IN  IF Len(o) = 0 THEN <<Row(r, MaskedInt)>>
                       ELSE [k \in 1..Len(o) |-> Row(r, o[k].object_id)]
    IN  Flatten([i \in 1..Len(s) |-> Rows(s[i])])

\* a plausible bug: the qualities are gone through from the worst
QualOrder_worst_first == <<"?", "E", "D", "C", "B", "A">>

\* the order best_para goes through the qualities in, line 1829
QualOrder == <<"A", "B", "C", "D", "E", "?">>

\* a plausible bug: the first row of the group whatever its quality
best_of_group_first_row(g) ==
    IF Len(g) > 0 THEN <<g[1]>> ELSE <<>>

\* lines 1829-1836 for one group: the first row of the first quality that
\* has a row, no row if no row has one of the qualities
best_of_group(g) ==
    LET Has(q) == \E i \in 1..Len(g) : g[i].teff_st_qual = QualOrder[q]
    IN  IF \E q \in 1..Len(QualOrder) : Has(q)
        THEN LET q == CHOOSE q0 \in 1..Len(QualOrder) :
                          Has(q0) /\ \A q1 \in 1..(q0 - 1) : ~Has(q1)
                 i == CHOOSE i0 \in 1..Len(g) :
                          /\ g[i0].teff_st_qual = QualOrder[q]
                          /\ \A i1 \in 1..(i0 - 1) :
                                 g[i1].teff_st_qual # QualOrder[q]
             IN  <<g[i]>>
        ELSE <<>>

\* the columns best_para keeps, lines 1821-1822
best_columns(r) ==
    [main_id |-> r.main_id, teff_st_value |-> r.teff_st_value,
     teff_st_qual |-> r.teff_st_qual,
     teff_st_source_idref |-> r.teff_st_source_idref]

\* best_para('teff_st', mes_table), lines 1806-1838
best_para(mes_table) ==
    LET m == [i \in 1..Len(mes_table) |-> best_columns(mes_table[i])]
        grouped == SortStable(m, MainIdKey)
    IN  Flatten([k \in 1..MaxMainId |-> best_of_group(WithMainId(grouped, k))])

\* Table.filled() of line 1926 on the re-keyed table
filled_rekeyed_mes(t) ==
    [i \in 1..Len(t) |->
        [t[i] EXCEPT !.object_idref =
                        IF @ = MaskedInt THEN IntFillValue ELSE @]]

RekeyedMesKey(r) ==
    <<r.main_id, r.teff_st_value, Ord(r.teff_st_qual), r.teff_st_ref,
      r.teff_st_source_idref, r.object_idref>>

\* lines 1797-1804 and 1869-1872: the table handed to best_para
mes_rekey(t, objects) ==
    rekey_mes(unique(filled_mes(t), MesKey), objects)

----------------------------------------------------------------------------
(* building: star_basic *)

\* Of the columns of a provider's star_basic only main_id and plx_value are
\* kept.  Of the columns that only the initialized table has (line 1797):
\* mag_i_qual, which no provider gives, and the teff_st columns that the
\* best measurement is put into.


\* Table.filled() of a masked main_id ('N/A')
NAMainId == MaxMainId + 1

\* Table.filled() of a masked cell of a reference column ('N'); it is no
\* reference of a provider and not 'None'
FilledRef == MaxRef + 2

StarKey(r) == <<r.main_id, r.plx_value>>

\* lines 1784-1795 for the table star_basic, one provider
StarFold ==
    /\ pc = "star_basic"
    /\ cat' = [cat EXCEPT !.star_basic =
                  IF Len(@) > 0
                  THEN IF Len(providers[j].star_basic) > 0
                       THEN join_outer_all(@, providers[j].star_basic, StarKey)
                       ELSE @
                  ELSE providers[j].star_basic]
    /\ pc' = IF j < NumProviders THEN pc ELSE "star_basic_rekey"
    /\ j' = IF j < NumProviders THEN j + 1 ELSE 1
    /\ UNCHANGED <<providers, teff_st_best_para>>
    /\ UNCHANGED idsvars
    /\ UNCHANGED srcvars
    /\ UNCHANGED mainvars

\* a plausible bug: the added string columns are filled as object columns,
\* with '?'
star_vstack_filled_as_object(t) ==
    [i \in 1..Len(t) |->
        [main_id |-> t[i].main_id,
         plx_value |-> t[i].plx_value,
         mag_i_qual |-> "?",
         teff_st_value |-> FloatFillValue,
         teff_st_qual |-> "?",
         teff_st_source_idref |-> IntFillValue,
         teff_st_ref |-> FilledRef]]

\* lines 1797-1799: the columns of the initialized table are added, masked
\* in every row, and filled
star_vstack_filled(t) ==
    [i \in 1..Len(t) |->
        [main_id |-> t[i].main_id,
         plx_value |-> t[i].plx_value,
         mag_i_qual |-> "N",
         teff_st_value |-> FloatFillValue,
         teff_st_qual |-> "N",
         teff_st_source_idref |-> IntFillValue,
         teff_st_ref |-> FilledRef]]

StarFullKey(r) ==
    <<r.main_id, r.plx_value, Ord(r.mag_i_qual), r.teff_st_value,
      Ord(r.teff_st_qual), r.teff_st_source_idref, r.teff_st_ref>>

\* lines 1869-1872: left join on main_id with objects['object_id','main_id']
rekey_star(t, objects) ==
    LET s == SortStable(t, MainIdKey)
        Row(r, id) == [main_id |-> r.main_id,
                       plx_value |-> r.plx_value,
                       mag_i_qual |-> r.mag_i_qual,
                       teff_st_value |-> r.teff_st_value,
                       teff_st_qual |-> r.teff_st_qual,
                       teff_st_source_idref |-> r.teff_st_source_idref,
                       teff_st_ref |-> r.teff_st_ref,
                       object_idref |-> id]
        Rows(r) == LET o == WithMainId(objects, r.main_id)
                   IN  IF Len(o) = 0 THEN <<Row(r, MaskedInt)>>
                       ELSE [k \in 1..Len(o) |-> Row(r, o[k].object_id)]
    IN  Flatten([i \in 1..Len(s) |-> Rows(s[i])])

\* the key column object_idref of the join of line 1885 has a masked value:
\* the join raises
star_key_masked(t) == \E r \in Range(t) : r.object_idref = MaskedInt

\* the row of the outer join of line 1885 for a star or system that has no
\* row in star_basic: all columns masked but object_idref (the column temp,
\* its main_id, is removed in line 1887), as filled in line 1926
star_only_row(id) ==
    [main_id |-> NAMainId,
     plx_value |-> FloatFillValue,
     mag_i_qual |-> "N",
     teff_st_value |-> FloatFillValue,
     teff_st_qual |-> "N",
     teff_st_source_idref |-> IntFillValue,
     teff_st_ref |-> FilledRef,
     object_idref |-> id]

\* lines 1873-1888: outer join on object_idref with the stars and systems
\* of the Object table
join_stars(t, objects) ==
    LET Rows(i) ==
            LET l == SelectSeq(t, LAMBDA r : r.object_idref = objects[i].object_id)
            IN  IF Len(l) > 0 THEN l
                ELSE IF objects[i].type \in {"st", "sy"}
                     THEN <<star_only_row(objects[i].object_id)>>
                     ELSE <<>>
    IN  Flatten([i \in 1..Len(objects) |-> Rows(i)])

RekeyedStarKey(r) ==
    <<r.main_id, r.plx_value, Ord(r.mag_i_qual), r.teff_st_value,
      Ord(r.teff_st_qual), r.teff_st_source_idref, r.teff_st_ref,
      r.object_idref>>

\* lines 1797-1804, 1865-1888 and 1926-1927 for the table star_basic.  The
\* table is empty: only the warning of line 1929.  It has rows and no
\* provider gave an object: cat[1] has no column main_id, KeyError.
StarRekey ==
    /\ pc = "star_basic_rekey"
    /\ IF Len(cat.star_basic) = 0
       THEN /\ cat' = cat
            /\ pc' = "mes_teff_st"
       ELSE IF Len(cat.objects) = 0
       THEN /\ cat' = cat
            /\ pc' = "error"
       ELSE LET u == unique(star_vstack_filled(cat.star_basic), StarFullKey)
                r == rekey_star(u, cat.objects)
            IN  IF star_key_masked(r)
                THEN /\ cat' = cat
                     /\ pc' = "error"
                ELSE /\ cat' = [cat EXCEPT !.star_basic =
                                   unique(join_stars(r, cat.objects),
                                          RekeyedStarKey)]
                     /\ pc' = "mes_teff_st"
    /\ UNCHANGED <<providers, teff_st_best_para, j>>
    /\ UNCHANGED idsvars
    /\ UNCHANGED srcvars
    /\ UNCHANGED mainvars

\* lines 1891-1894 and 1930: the five teff_st columns of star_basic are
\* removed, teff_st_ref among them, and the columns of best (which has no
\* teff_st_ref, line 1821) are joined, join_type='left' on the one common
\* column main_id; a star without a row in best gets the fill values
splice_teff_st(star, best) ==
    LET s == SortStable(star, MainIdKey)
        Row(r, value, qual, source) ==
            [main_id |-> r.main_id,
             plx_value |-> r.plx_value,
             mag_i_qual |-> r.mag_i_qual,
             object_idref |-> r.object_idref,
             teff_st_value |-> value,
             teff_st_qual |-> qual,
             teff_st_source_idref |-> source]
        Rows(r) ==
            LET b == WithMainId(best, r.main_id)
            IN  IF Len(b) = 0
                THEN <<Row(r, FloatFillValue, "N", IntFillValue)>>
                ELSE [k \in 1..Len(b) |->
                         Row(r, b[k].teff_st_value, b[k].teff_st_qual,
                             b[k].teff_st_source_idref)]
    IN  Flatten([i \in 1..Len(s) |-> Rows(s[i])])

\* replace_value(cat, 'teff_st_qual', 'N', '?'), lines 429-444
replace_teff_st_qual(t) ==
    [i \in 1..Len(t) |->
        [t[i] EXCEPT !.teff_st_qual = IF @ = "N" THEN "?" ELSE @]]

\* a plausible bug: the objects are numbered again at the end, in the
\* other direction, after their ids have been used
Unify_renumbers_objects ==
    /\ pc = "unify"
    /\ cat' = [cat EXCEPT
           !.star_basic = replace_teff_st_qual(@),
           !.mes_teff_st = replace_teff_st_qual(@),
           !.objects = [i \in 1..Len(@) |->
                           [@[i] EXCEPT !.object_id = Len(cat.objects) + 1 - i]]]
    /\ pc' = "done"
    /\ UNCHANGED <<providers, teff_st_best_para, j>>
    /\ UNCHANGED idsvars
    /\ UNCHANGED srcvars
    /\ UNCHANGED mainvars

\* lines 1932-1946: of the columns of this model the list has teff_st_qual
\* of star_basic and of mes_teff_st; mag_i_qual is not in the list
Unify ==
    /\ pc = "unify"
    /\ cat' = [cat EXCEPT !.star_basic = replace_teff_st_qual(@),
                          !.mes_teff_st = replace_teff_st_qual(@)]
    /\ pc' = "done"
    /\ UNCHANGED <<providers, teff_st_best_para, j>>
    /\ UNCHANGED idsvars
    /\ UNCHANGED srcvars
    /\ UNCHANGED mainvars

----------------------------------------------------------------------------
(* building: mes_teff_st after the fold, the end of the run *)

\* lines 1797-1838, 1865-1872, 1889-1894 and 1926-1927 for mes_teff_st.
\* With rows in mes_teff_st and none in star_basic, star_basic has the
\* columns of the initialized table only, none in common with the table of
\* best_para: the join of line 1894 raises TableMergeError.
MesBest ==
    /\ pc = "mes_teff_st_best"
    /\ IF Len(cat.mes_teff_st) = 0
       THEN /\ cat' = cat
            /\ teff_st_best_para' = teff_st_best_para
            /\ pc' = "unify"
       ELSE IF Len(cat.objects) = 0
       THEN /\ cat' = cat
            /\ teff_st_best_para' = teff_st_best_para
            /\ pc' = "error"
       ELSE LET r == mes_rekey(cat.mes_teff_st, cat.objects)
            IN  /\ teff_st_best_para' = best_para(r)
                /\ IF Len(cat.star_basic) = 0
                   THEN /\ cat' = cat
                        /\ pc' = "error"
                   ELSE /\ cat' = [cat EXCEPT
                               !.star_basic = splice_teff_st(@, best_para(r)),
                               !.mes_teff_st =
                                   unique(filled_rekeyed_mes(r), RekeyedMesKey)]
                        /\ pc' = "unify"
    /\ UNCHANGED <<providers, j>>
    /\ UNCHANGED idsvars
    /\ UNCHANGED srcvars
    /\ UNCHANGED mainvars

----------------------------------------------------------------------------
(* building: the provider extracts and the run *)

\* provider types of an object: star, system, and 'None' for unknown
ProviderTypes == {"st", "sy", "None"}

\* sources_table, lines 300-333, on the reference columns of a provider's
\* tables: its references once each, in sorted order
provider_sources(p, links, mes) ==
    LET refs == {links[i].h_link_ref : i \in 1..Len(links)}
                \cup {mes[i].teff_st_ref : i \in 1..Len(mes)}
        rows == {[ref |-> r, provider_name |-> ProviderNames[p]] :
                    r \in refs \ {MaskedInt}}
    IN  SortSet(rows, SourceKey)

\* the list of tables of provider p
Extract(p, objects, links, star, mes) ==
    [provider |-> <<[provider_name |-> ProviderNames[p]]>>,
     sources |-> provider_sources(p, links, mes),
     objects |-> objects,
     h_link |-> links,
     star_basic |-> star,
     mes_teff_st |-> mes]

\* line 1632: every table starts empty
BuildStart ==
    /\ cat = [sources |-> <<>>, objects |-> <<>>, h_link |-> <<>>,
              star_basic |-> <<>>, mes_teff_st |-> <<>>]
    /\ teff_st_best_para = <<>>
    /\ pc = "sources"
    /\ j = 1

IdsIdle ==
    /\ ids_1 = <<>>
    /\ ids_2 = <<>>
    /\ ids = <<>>
    /\ ids_swapped = <<>>
    /\ ipc = "idle"

Next ==
    \/ SourcesFold
    \/ SourcesFinish
    \/ ObjectsFold
    \/ Objectmerging
    \/ AssignObjectId
    \/ HLinkFold
    \/ HLinkRekey
    \/ StarFold
    \/ StarRekey
    \/ MesFold
    \/ MesBest
    \/ Unify

\* the object tables of the providers vary
ObjectRows == [main_id : 1..MaxMainId, ids : {<<"a">>}, type : ProviderTypes]

InitObjects ==
    /\ \E o \in [1..NumProviders -> Tables(ObjectRows, MaxRows)] :
           providers = [p \in 1..NumProviders |-> Extract(p, o[p], <<>>, <<>>, <<>>)]
    /\ BuildStart
    /\ IdsIdle
    /\ SrcIdle
    /\ MainIdle

SpecObjects == InitObjects /\ [][Next]_vars

\* the link tables of the providers vary; SIMBAD gives the one object, so a
\* link's child and parent are each in the Object table or not
LinkRows == [main_id : 1..MaxMainId, parent_main_id : 1..MaxMainId,
             h_link_ref : {1}]

LinkObjects == <<[main_id |-> 1, ids |-> <<"a">>, type |-> "st"]>>

\* the same object as the second provider has it (Gaia-like: type 'None')
LinkObjects2 == <<[main_id |-> 1, ids |-> <<"a">>, type |-> "None"]>>

\* the star_basic extract of SIMBAD: the one object
FixedStar == <<[main_id |-> 1, plx_value |-> 1]>>

\* the objects extract of provider p
FixedObjects(p) ==
    IF p = 1 THEN LinkObjects ELSE IF p = 2 THEN LinkObjects2 ELSE <<>>

InitLinks ==
    /\ \E l \in [1..NumProviders -> Tables(LinkRows, MaxRows)] :
           providers = [p \in 1..NumProviders |->
                           Extract(p, FixedObjects(p), l[p], <<>>, <<>>)]
    /\ BuildStart
    /\ IdsIdle
    /\ SrcIdle
    /\ MainIdle

SpecLinks == InitLinks /\ [][Next]_vars

\* the measurement tables of the providers after SIMBAD vary (SIMBAD has no
\* table mes_teff_st); a quality may be masked
QualPool == {"A", "?", MaskedStr}

MesRows == [main_id : 1..MaxMainId, teff_st_value : 1..MaxValue,
            teff_st_qual : QualPool, teff_st_ref : {1}]

InitMes ==
    /\ \E m \in [2..NumProviders -> Tables(MesRows, MaxRows)] :
           providers = [p \in 1..NumProviders |->
                           IF p = 1
                           THEN Extract(p, FixedObjects(p), <<>>,
                                        FixedStar, <<>>)
                           ELSE Extract(p, FixedObjects(p), <<>>,
                                        <<>>, m[p])]
    /\ BuildStart
    /\ IdsIdle
    /\ SrcIdle
    /\ MainIdle

SpecMes == InitMes /\ [][Next]_vars

----------------------------------------------------------------------------
(* Claims on the objects fold *)

\* every provider's object table has been folded
ObjectsFolded ==
    pc \in {"object_id", "h_link", "h_link_rekey", "star_basic",
            "star_basic_rekey", "mes_teff_st", "mes_teff_st_best", "unify",
            "done", "error"}

\* line 1725 has run
ObjectIdAssigned ==
    pc \in {"h_link", "h_link_rekey", "star_basic", "star_basic_rekey",
            "mes_teff_st", "mes_teff_st_best", "unify", "done", "error"}

Known(type) == type # MaskedStr /\ type # "None"

\* C3: after the fold of the object tables no two rows of the merged
\* Object table have the same main_id.
C3_UniqueMainId ==
    ObjectsFolded =>
        \A a, b \in 1..Len(cat.objects) :
            a # b => cat.objects[a].main_id # cat.objects[b].main_id

\* C4: objectmerging gives every row of the joined table the type of the
\* second table if that is present and not 'None', and the type of the
\* first table otherwise.
C4_TypePrecedence ==
    [][pc = "objectmerging" =>
        /\ Len(cat'.objects) = Len(cat.objects)
        /\ \A i \in 1..Len(cat.objects) :
               cat'.objects[i].type =
                   IF Known(cat.objects[i].type_2)
                   THEN cat.objects[i].type_2
                   ELSE cat.objects[i].type_1]_vars

\* C4 witness: the second provider has been merged into the first; one
\* object had a known type in both and shows the second, another had 'None'
\* in the second and shows the first
C4_Witness ==
    /\ pc = "objects"
    /\ j = 3
    /\ \E r \in Range(cat.objects) :
           /\ r.type = "sy"
           /\ \E a \in Range(providers[1].objects) :
                  a.main_id = r.main_id /\ a.type = "st"
           /\ \E b \in Range(providers[2].objects) :
                  b.main_id = r.main_id /\ b.type = "sy"
    /\ \E r \in Range(cat.objects) :
           /\ r.type = "st"
           /\ \E a \in Range(providers[1].objects) :
                  a.main_id = r.main_id /\ a.type = "st"
           /\ \E b \in Range(providers[2].objects) :
                  b.main_id = r.main_id /\ b.type = "None"

\* the providers that gave a known type for main_id k
KnownBy(k) ==
    {p \in 1..NumProviders :
        \E r \in Range(providers[p].objects) : r.main_id = k /\ Known(r.type)}

Last(S) == CHOOSE p \in S : \A q \in S : q <= p

\* C5: after the fold the type of an object is the type given by the last
\* provider in fold order that gave a known type for it (and unknown if
\* none did).
C5_LastKnownType ==
    ObjectsFolded =>
        \A r \in Range(cat.objects) :
            IF KnownBy(r.main_id) = {}
            THEN ~Known(r.type)
            ELSE \E g \in Range(providers[Last(KnownBy(r.main_id))].objects) :
                     g.main_id = r.main_id /\ Known(g.type) /\ g.type = r.type

\* C10: once assigned, the object_id of the i-th row of the Object table is
\* i: the values are 1..N, each once, in row order.
C10_ObjectIdDense ==
    ObjectIdAssigned =>
        \A i \in 1..Len(cat.objects) : cat.objects[i].object_id = i

\* C10 witness: object ids have been assigned to a table of several rows
\* merged from several providers
C10_Witness ==
    /\ pc = "h_link"
    /\ Len(cat.objects) >= 3
    /\ \A p \in 1..NumProviders : Len(providers[p].objects) > 0

----------------------------------------------------------------------------
(* Claims on the hierarchical links *)

\* the h_link table has been re-keyed to object ids
LinksRekeyed ==
    pc \in {"star_basic", "star_basic_rekey", "mes_teff_st",
            "mes_teff_st_best", "unify", "done"}

ObjectIds == {cat.objects[i].object_id : i \in 1..Len(cat.objects)}

\* C9: in the final h_link table every row's child_object_idref and
\* parent_object_idref is the object_id of a row of the Object table.
C9_LinksResolve ==
    LinksRekeyed =>
        \A r \in Range(cat.h_link) :
            /\ r.child_object_idref \in ObjectIds
            /\ r.parent_object_idref \in ObjectIds

----------------------------------------------------------------------------
(* Claims on the selection of the best measurement *)

\* the tier of a quality under A < B < C < D < E < ?; a masked quality
\* counts as '?'
Grade(q) ==
    CASE q = "A" -> 1
      [] q = "B" -> 2
      [] q = "C" -> 3
      [] q = "D" -> 4
      [] q = "E" -> 5
      [] OTHER -> 6

\* the rows of object k that provider p gave
ProviderRows(p, k) ==
    {r \in Range(providers[p].mes_teff_st) : r.main_id = k}

\* the rows of object k in the providers' tables
InputRows(k) == UNION {ProviderRows(p, k) : p \in 1..NumProviders}

\* the rows of object k of the best grade that k has
WinningRows(k) ==
    {r \in InputRows(k) :
        \A s \in InputRows(k) : Grade(r.teff_st_qual) <= Grade(s.teff_st_qual)}

\* C6: the row best_para selected for an object has the best grade among
\* the object's rows, whichever provider gave them.
C6_BestGrade ==
    pc = "done" =>
        \A b \in Range(teff_st_best_para) :
            \A r \in InputRows(b.main_id) :
                Grade(b.teff_st_qual) <= Grade(r.teff_st_qual)

\* C6 witness: an object has '?' from an earlier provider and 'A' from a
\* later one only, and the selected row has 'A'
C6_Witness ==
    /\ pc = "done"
    /\ \E b \in Range(teff_st_best_para) :
           /\ b.teff_st_qual = "A"
           /\ \E r \in ProviderRows(2, b.main_id) : r.teff_st_qual = "?"
           /\ \A r \in ProviderRows(2, b.main_id) : r.teff_st_qual # "A"
           /\ \E r \in ProviderRows(3, b.main_id) : r.teff_st_qual = "A"

\* C7: best_para has exactly one row for every object that has a row in the
\* measurement table, a masked quality included, and none for another
\* object.
C7_OneRowPerObject ==
    pc = "done" =>
        \A k \in 1..MaxMainId :
            Cardinality({i \in 1..Len(teff_st_best_para) :
                            teff_st_best_para[i].main_id = k})
                = IF InputRows(k) = {} THEN 0 ELSE 1

\* the provider that the source of a selected row belongs to
ProviderOf(b) ==
    CHOOSE p \in 1..NumProviders :
        \E s \in Range(cat.sources) :
            /\ s.source_id = b.teff_st_source_idref
            /\ s.provider_name = ProviderNames[p]

\* the providers with a row of b's object at b's grade
TiedProviders(b) ==
    {p \in 1..NumProviders :
        \E r \in ProviderRows(p, b.main_id) : r.teff_st_qual = b.teff_st_qual}

First(S) == CHOOSE p \in S : \A q \in S : p <= q

----------------------------------------------------------------------------
(* sources_table *)

\* the reference columns of the table cat the calls are made with
RefColumns == <<"coo_ref", "plx_ref">>

\* the rows of cat: each reference a bibcode or masked
RefRows == [coo_ref : {MaskedInt} \cup 1..MaxRef,
            plx_ref : {MaskedInt, 1}]

\* providers that call sources_table
RefProviders == {ProviderNames[1], ProviderNames[2]}

\* lines 315-322: the entries of the listed columns that are not masked
cat_reflist(c, ref_columns) ==
    {c[i][ref_columns[k]] : i \in 1..Len(c), k \in 1..Len(ref_columns)}
        \ {MaskedInt}

\* sources_table(cat, ref_columns, provider, old_sources), lines 300-333.
\* With rows in cat and no reference that is not masked, cat_sources['ref']
\* is made of the empty list, an empty column of floats: vstack with old
\* sources, whose column ref holds strings, raises TableMergeError (columns
\* of incompatible types).  Without old sources the call is taken to return
\* the empty table.
sources_table(c, ref_columns, provider, old) ==
    IF Len(c) > 0
    THEN IF cat_reflist(c, ref_columns) = {}
         THEN IF Len(old) > 0
              THEN [error |-> TRUE, sources |-> <<>>]
              ELSE [error |-> FALSE, sources |-> <<>>]
         ELSE [error |-> FALSE,
               sources |->
                   SortSet(Range(old)
                           \cup {[ref |-> r, provider_name |-> provider] :
                                    r \in cat_reflist(c, ref_columns)},
                           SourceKey)]
    ELSE [error |-> FALSE, sources |-> old]

InitSources ==
    /\ ref_cat = <<>>
    /\ ref_provider = ""
    /\ old_sources = <<>>
    /\ ret_sources = <<>>
    /\ spc = "call"
    /\ BuildIdle
    /\ IdsIdle
    /\ MainIdle

\* sources = sources_table(cat, ref, provider, sources), as the providers
\* call it in their loops (e.g. lines 686-687)
SourcesTable ==
    /\ spc = "call"
    /\ \E c \in Tables(RefRows, MaxRows), p \in RefProviders :
       LET out == sources_table(c, RefColumns, p, ret_sources)
       IN  /\ ref_cat' = c
           /\ ref_provider' = p
           /\ old_sources' = ret_sources
           /\ ret_sources' = out.sources
           /\ spc' = IF out.error THEN "error" ELSE "call"
    /\ UNCHANGED buildvars
    /\ UNCHANGED idsvars
    /\ UNCHANGED mainvars

NextSources == SourcesTable

SpecSources == InitSources /\ [][NextSources]_vars

\* the pairs (r, provider) of the references of the last call
CallPairs ==
    {[ref |-> r, provider_name |-> ref_provider] :
        r \in cat_reflist(ref_cat, RefColumns)}

NoDuplicates(t) == \A a, b \in 1..Len(t) : a # b => t[a] # t[b]

\* C12: a call of sources_table returns the union, without duplicates, of
\* old_sources and the pairs (r, provider) of the references of cat that
\* are not masked; no call raises and no call loses a source.
C12_SourcesUnion ==
    /\ spc # "error"
    /\ Range(ret_sources) = Range(old_sources) \cup CallPairs
    /\ NoDuplicates(ret_sources)

----------------------------------------------------------------------------
(* Claims on the Source table *)

\* lines 1636-1650 have run
SourcesFinished == pc \notin {"idle", "sources", "source_id"}

\* C11: in the final Source table no two rows have the same pair (ref,
\* provider_name), and the source_id of the i-th of its N rows is i.
C11_SourcesUniqueDense ==
    SourcesFinished =>
        /\ \A a, b \in 1..Len(cat.sources) :
               a # b => \/ cat.sources[a].ref # cat.sources[b].ref
                        \/ cat.sources[a].provider_name
                               # cat.sources[b].provider_name
        /\ \A i \in 1..Len(cat.sources) : cat.sources[i].source_id = i

\* C11 witness: the run is over and the Source table has the sources of
\* every provider
C11_Witness ==
    /\ pc = "done"
    /\ Len(cat.sources) = NumProviders
    /\ \A p \in 1..NumProviders : Len(providers[p].sources) > 0

----------------------------------------------------------------------------
(* Claims on match *)

\* measurement rows of one object whose value or reference may be masked
MatchRows == [main_id : {1}, teff_st_value : {MaskedInt} \cup 1..MaxValue,
              teff_st_qual : {"A"}, teff_st_ref : {MaskedInt, 1}]

InitMatch ==
    /\ \E m \in [2..NumProviders -> Tables(MatchRows, MaxRows)] :
           providers = [p \in 1..NumProviders |->
                           IF p = 1
                           THEN Extract(p, FixedObjects(p), <<>>,
                                        FixedStar, <<>>)
                           ELSE Extract(p, FixedObjects(p), <<>>,
                                        <<>>, m[p])]
    /\ BuildStart
    /\ IdsIdle
    /\ SrcIdle
    /\ MainIdle

SpecMatch == InitMatch /\ [][Next]_vars

\* match has run on the table mes_teff_st of provider p
Matched(p) ==
    \/ pc = "mes_teff_st" /\ p < j
    \/ pc \in {"mes_teff_st_best", "unify", "done"}

\* C13: after match every row whose teff_st_value is masked has the null
\* source 999999 as teff_st_source_idref, with or without a reference and
\* whether or not the reference has a source.
C13_MaskedValueNullSource ==
    \A p \in 1..NumProviders :
        Matched(p) =>
            \A r \in Range(providers[p].mes_teff_st) :
                r.teff_st_value = MaskedInt
                    => r.teff_st_source_idref = IntFillValue

\* C13 witness: match has run on a table with a row without a value whose
\* reference has a source, and on one whose reference is masked
C13_Witness ==
    \E p \in 1..NumProviders :
        /\ Matched(p)
        /\ \E r \in Range(providers[p].mes_teff_st) :
               /\ r.teff_st_value = MaskedInt
               /\ r.teff_st_ref = 1
               /\ r.teff_st_source_idref = IntFillValue
               /\ \E s \in Range(cat.sources) :
                      s.ref = 1 /\ s.provider_name = ProviderNames[p]
        /\ \E r \in Range(providers[p].mes_teff_st) :
               /\ r.teff_st_value = MaskedInt
               /\ r.teff_st_ref = NoneRef
               /\ r.teff_st_source_idref = IntFillValue

\* every measurement of every provider has a value
AllValued ==
    \A p \in 1..NumProviders :
        \A r \in Range(providers[p].mes_teff_st) :
            r.teff_st_value # MaskedInt

\* the row r of a provider is in the final table with the null source
KeptWithNullSource(r) ==
    \E row \in Range(cat.mes_teff_st) :
        /\ row.main_id = r.main_id
        /\ row.teff_st_value = r.teff_st_value
        /\ row.teff_st_ref = r.teff_st_ref
        /\ row.teff_st_source_idref = IntFillValue

\* C14: a row whose reference has no source row of its provider is no error
\* and is not dropped: the merge goes on and the final table has the row
\* with the source 999999.
C14_UnresolvedKept ==
    AllValued /\ Len(cat.sources) > 0 =>
        /\ pc # "error"
        /\ pc = "done" =>
               \A p \in 1..NumProviders :
                   \A r \in Range(providers[p].mes_teff_st) :
                       r.teff_st_source_idref = MaskedInt
                           => KeptWithNullSource(r)

----------------------------------------------------------------------------
(* Claims on the whole pipeline: star_basic with its temperature *)

\* a star with one identifier
StarObject(k, c) == [main_id |-> k, ids |-> <<c>>, type |-> "st"]

StarRows == [main_id : 1..MaxMainId, plx_value : 1..MaxValue]

TeffRows == [main_id : {1}, teff_st_value : 1..MaxValue,
             teff_st_qual : {"A", "B"}, teff_st_ref : {1}]

\* provider 1 gives the second star and star_basic rows, providers 2 and 3
\* may give the first star, each with another identifier, and one
\* temperature of it each
InitStar ==
    /\ \E o2 \in {<<>>, <<StarObject(1, "a")>>},
          o3 \in {<<>>, <<StarObject(1, "b")>>},
          s \in Tables(StarRows, MaxRows),
          m \in [2..3 -> Tables(TeffRows, 1)] :
           providers = [p \in 1..NumProviders |->
                           CASE p = 1 -> Extract(p, <<StarObject(2, "a")>>,
                                                 <<>>, s, <<>>)
                             [] p = 2 -> Extract(p, o2, <<>>, <<>>, m[2])
                             [] p = 3 -> Extract(p, o3, <<>>, <<>>, m[3])
                             [] OTHER -> Extract(p, <<>>, <<>>, <<>>, <<>>)]
    /\ BuildStart
    /\ IdsIdle
    /\ SrcIdle
    /\ MainIdle

SpecStar == InitStar /\ [][Next]_vars

\* C15: after building has finished no row of a basic table or of a
\* measurement table has the raw null 'N' (or 'N/A') in a quality column,
\* only '?'.
C15_NoRawNull ==
    pc = "done" =>
        /\ \A r \in Range(cat.star_basic) :
               r.teff_st_qual # "N" /\ r.mag_i_qual # "N"
        /\ \A r \in Range(cat.mes_teff_st) : r.teff_st_qual # "N"

\* the rows of star k that provider p gave in its objects table
StarsOf(p, k) ==
    {o \in Range(providers[p].objects) : o.main_id = k /\ o.type = "st"}

\* two providers give the star k, with different identifiers and with
\* temperatures of different quality
TwoProvidersGive(k) ==
    \E p, q \in 1..NumProviders :
        /\ p # q
        /\ \E o \in StarsOf(p, k) : \E u \in StarsOf(q, k) :
               ElemSet(o.ids) # ElemSet(u.ids)
        /\ \E r \in ProviderRows(p, k) : \E s \in ProviderRows(q, k) :
               r.teff_st_qual # s.teff_st_qual

\* the identifiers that the providers give for object k
IdsGiven(k) ==
    UNION {ElemSet(o.ids) :
              o \in UNION {StarsOf(p, k) : p \in 1..NumProviders}}

\* the temperatures that the final star_basic has for object k
StarTemperatures(k) ==
    {r.teff_st_value :
        r \in {s \in Range(cat.star_basic) :
                  \E o \in Range(cat.objects) :
                      o.main_id = k /\ s.object_idref = o.object_id}}

\* C16: when two providers give a star of one main_id with different
\* identifiers and temperatures of different quality, the final tables have
\* one object row for it with the union of the identifiers, and star_basic
\* has one temperature for it, that of the measurement of the best quality.
C16_MergedStar ==
    pc = "done" =>
        \A k \in 1..MaxMainId :
            TwoProvidersGive(k) =>
                /\ Cardinality({i \in DOMAIN cat.objects :
                                   cat.objects[i].main_id = k}) = 1
                /\ \A o \in Range(cat.objects) :
                       o.main_id = k => ElemSet(o.ids) = IdsGiven(k)
                /\ Cardinality(StarTemperatures(k)) = 1
                /\ StarTemperatures(k)
                       \subseteq {w.teff_st_value : w \in WinningRows(k)}

\* C20: the final star_basic table has at most one row per object.
C20_OneRowPerStar ==
    pc = "done" =>
        \A r, s \in Range(cat.star_basic) :
            r.object_idref = s.object_idref => r = s

\* star_basic has been built: the fold, vstack, filled and the joins with
\* the Object table have run without an exception
StarBuilt == pc \in {"mes_teff_st", "mes_teff_st_best", "unify", "done"}

\* a provider gives star_basic rows; they have no column mag_i_qual, which
\* the initialized star_basic table has
StarGiven == \E p \in 1..NumProviders : Len(providers[p].star_basic) > 0

\* C18 as stated: when a provider's star_basic lacks a column of the
\* initialized table, building star_basic stops with a failure and never
\* gives a merged table with the column filled in.
C18_MissingColumnFatal == StarGiven => ~StarBuilt

\* C18 amended: a column of the initialized table that the providers'
\* star_basic lacks is no failure; every provider row is in the built
\* star_basic with the fill value 'N' in that column.
C18_MissingColumnFilled ==
    StarBuilt =>
        \A p \in 1..NumProviders :
            \A r \in Range(providers[p].star_basic) :
                \E s \in Range(cat.star_basic) :
                    /\ s.main_id = r.main_id
                    /\ s.plx_value = r.plx_value
                    /\ s.mag_i_qual = "N"

\* C18 witness: building has finished with a provider row in star_basic
\* whose mag_i_qual was filled
C18_Witness ==
    /\ pc = "done"
    /\ StarGiven
    /\ \E r \in Range(providers[1].star_basic) :
           \E s \in Range(cat.star_basic) :
               /\ s.main_id = r.main_id
               /\ s.plx_value = r.plx_value
               /\ s.mag_i_qual = "N"

----------------------------------------------------------------------------
(* Claims on the fold of empty provider tables *)

\* C17: folding a provider whose table of a category has no rows leaves the
\* accumulated table of the category as it is and raises no error, at every
\* position of the fold, the first included.
C17_EmptyFoldNoop ==
    [][/\ (pc = "sources" /\ Len(providers[j].sources) = 0)
           => (cat'.sources = cat.sources /\ pc' # "error")
       /\ (pc = "objects" /\ Len(providers[j].objects) = 0)
           => (cat'.objects = cat.objects /\ pc' # "error")
       /\ (pc = "h_link" /\ Len(providers[j].h_link) = 0)
           => (cat'.h_link = cat.h_link /\ pc' # "error")
       /\ (pc = "star_basic" /\ Len(providers[j].star_basic) = 0)
           => (cat'.star_basic = cat.star_basic /\ pc' # "error")
       /\ (pc = "mes_teff_st" /\ Len(providers[j].mes_teff_st) = 0)
           => (cat'.mes_teff_st = cat.mes_teff_st /\ pc' # "error")]_vars

\* C17 witness: the measurement fold is over, the first and the last
\* provider had no rows, and the accumulated table is that of the second
C17_Witness ==
    /\ pc = "mes_teff_st_best"
    /\ Len(providers[1].mes_teff_st) = 0
    /\ Len(providers[2].mes_teff_st) > 0
    /\ Len(providers[NumProviders].mes_teff_st) = 0
    /\ Len(providers[NumProviders].sources) = 0
    /\ cat.mes_teff_st = providers[2].mes_teff_st
    /\ Len(cat.sources) > 0

----------------------------------------------------------------------------
(* Claims on the measurement table *)

\* the row s of the final measurement table is the provider's row r, with
\* the nulls of r written as fill values and a null quality as '?'
SameMeasurement(r, s) ==
    /\ s.main_id = r.main_id
    /\ s.teff_st_value =
           (IF r.teff_st_value = MaskedInt THEN FloatFillValue
            ELSE r.teff_st_value)
    /\ s.teff_st_qual =
           (IF r.teff_st_qual = MaskedStr THEN "?" ELSE r.teff_st_qual)
    /\ s.teff_st_ref = r.teff_st_ref
    /\ s.teff_st_source_idref =
           (IF r.teff_st_source_idref = MaskedInt THEN IntFillValue
            ELSE r.teff_st_source_idref)

\* C19: every measurement row of every provider is in the final table
\* mes_teff_st, and every row of the final table is a provider's row: the
\* selection of the best measurement removes and changes none.
C19_AllMeasurementsKept ==
    pc = "done" =>
        /\ \A p \in 1..NumProviders :
               \A r \in Range(providers[p].mes_teff_st) :
                   \E s \in Range(cat.mes_teff_st) : SameMeasurement(r, s)
        /\ \A s \in Range(cat.mes_teff_st) :
               \E p \in 1..NumProviders :
                   \E r \in Range(providers[p].mes_teff_st) :
                       SameMeasurement(r, s)

\* C19 witness: two providers gave rows of one object with different
\* qualities, one was selected, both are in the final table; so is a row of
\* a main_id without an object
C19_Witness ==
    /\ pc = "done"
    /\ Len(teff_st_best_para) > 0
    /\ \E r \in Range(providers[2].mes_teff_st) :
           \E s \in Range(providers[3].mes_teff_st) :
               /\ r.main_id = s.main_id
               /\ r.teff_st_qual # s.teff_st_qual
               /\ \E x, y \in Range(cat.mes_teff_st) :
                      SameMeasurement(r, x) /\ SameMeasurement(s, y)
    /\ \E x \in Range(cat.mes_teff_st) : x.object_idref = IntFillValue

----------------------------------------------------------------------------
(* Claims on the columns of star_basic *)

\* the columns of the initialized star_basic table that the model keeps
StarSchema ==
    {"object_idref", "plx_value", "mag_i_qual", "teff_st_value",
     "teff_st_qual", "teff_st_source_idref", "teff_st_ref"}

\* the columns of the initialized mes_teff_st table that the model keeps
MesSchema ==
    {"object_idref", "teff_st_value", "teff_st_qual",
     "teff_st_source_idref", "teff_st_ref"}

\* C21: every column of the initialized table of a category is in the
\* final table of the category, the reference columns of star_basic after
\* the splice of the best measurement included.
C21_SchemaColumnsKept ==
    pc = "done" =>
        /\ \A r \in Range(cat.star_basic) : StarSchema \subseteq DOMAIN r
        /\ \A r \in Range(cat.mes_teff_st) : MesSchema \subseteq DOMAIN r

\* the step splices the best temperatures into star_basic
TeffSpliced ==
    pc = "mes_teff_st_best" /\ pc' = "unify" /\ Len(cat.mes_teff_st) > 0

\* no measurement was selected for the object of the star_basic row r
Unselected(r) ==
    \A b \in Range(teff_st_best_para') : b.main_id # r.main_id

\* the row s is the row r of star_basic after the splice
SameStarRow(r, s) ==
    /\ s.main_id = r.main_id
    /\ s.plx_value = r.plx_value
    /\ s.object_idref = r.object_idref

\* C22: when the best temperature is spliced into star_basic, a row of an
\* object without a selected measurement keeps the values that its
\* temperature columns (value, quality, source, reference) had before.
C22_UnselectedKeepValues ==
    [][TeffSpliced =>
          \A r \in Range(cat.star_basic) :
              Unselected(r) =>
                  \E s \in Range(cat'.star_basic) :
                      /\ SameStarRow(r, s)
                      /\ s.teff_st_value = r.teff_st_value
                      /\ s.teff_st_qual = r.teff_st_qual
                      /\ s.teff_st_source_idref = r.teff_st_source_idref
                      /\ "teff_st_ref" \in DOMAIN s
                      /\ s.teff_st_ref = r.teff_st_ref]_vars

----------------------------------------------------------------------------
(* Claims on the identifiers of a merged object *)

\* the positions of the identifiers in the pipe-delimited string s
IdPositions(s) == {i \in DOMAIN split(s) : split(s)[i] # <<>>}

\* C23: the ids string of a merged object has each identifier at most once,
\* also when one of the two columns is empty or masked (an object that only
\* one of the joined tables has).
C23_IdsOnce ==
    ipc # "input" =>
        \A i, k \in IdPositions(ids) :
            i # k => split(ids)[i] # split(ids)[k]

----------------------------------------------------------------------------
(* Claims on the sources that match resolves *)

\* the source row that the row r of provider p points to
ResolvedSource(p, r) ==
    {s \in Range(cat.sources) : s.source_id = r.teff_st_source_idref}

\* C24: a source that match resolved is a row of the Source table with the
\* reference of the measurement and the name of the provider whose table
\* was matched, never a row of another provider with the same reference.
C24_SourceOfProvider ==
    \A p \in 1..NumProviders :
        Matched(p) =>
            \A r \in Range(providers[p].mes_teff_st) :
                r.teff_st_source_idref \notin {MaskedInt, IntFillValue} =>
                    /\ ResolvedSource(p, r) # {}
                    /\ \A s \in ResolvedSource(p, r) :
                           /\ s.ref = r.teff_st_ref
                           /\ s.provider_name = ProviderNames[p]

\* C24 witness: two providers cite the same reference, match has run on
\* both tables, and their rows point to different sources
C24_Witness ==
    /\ Matched(2)
    /\ Matched(3)
    /\ \E r \in Range(providers[2].mes_teff_st) :
           \E u \in Range(providers[3].mes_teff_st) :
               /\ r.teff_st_ref = u.teff_st_ref
               /\ r.teff_st_source_idref \notin {MaskedInt, IntFillValue}
               /\ u.teff_st_source_idref \notin {MaskedInt, IntFillValue}
               /\ r.teff_st_source_idref # u.teff_st_source_idref

----------------------------------------------------------------------------
(* Claims on the order of the categories *)

\* some table has a resolved reference: a source_idref that match wrote or
\* an object_idref that the re-keying wrote
IdrefWritten ==
    \/ \E p \in 1..NumProviders :
           \/ \E r \in Range(providers[p].mes_teff_st) :
                  "teff_st_source_idref" \in DOMAIN r
           \/ \E r \in Range(providers[p].h_link) :
                  "h_link_source_idref" \in DOMAIN r
    \/ \E r \in Range(cat.h_link) : "child_object_idref" \in DOMAIN r
    \/ \E r \in Range(cat.star_basic) : "object_idref" \in DOMAIN r
    \/ \E r \in Range(cat.mes_teff_st) : "object_idref" \in DOMAIN r

SourceIds == {cat.sources[i].source_id : i \in 1..Len(cat.sources)}

\* the references of the final tables are null or ids of the final Source
\* and Object tables
IdrefsFinal ==
    /\ \A r \in Range(cat.mes_teff_st) :
           /\ r.teff_st_source_idref \in SourceIds \cup {IntFillValue}
           /\ r.object_idref \in ObjectIds \cup {IntFillValue}
    /\ \A r \in Range(cat.star_basic) :
           r.object_idref \in ObjectIds \cup {IntFillValue}

\* C25: the source_ids and the object_ids are assigned before a reference
\* or a main_id is resolved in a later table, and are not assigned again
\* afterwards, so that the references of the final tables are final ids.
C25_IdsBeforeReferences ==
    [][/\ SourcesFinished => cat'.sources = cat.sources
       /\ ObjectIdAssigned => cat'.objects = cat.objects
       /\ IdrefWritten' => (SourcesFinished' /\ ObjectIdAssigned')
       /\ pc' = "done" => IdrefsFinal']_vars

\* C25 witness: building has finished with two sources and two objects, a
\* measurement citing the second source and a star_basic row of the second
\* object
C25_Witness ==
    /\ pc = "done"
    /\ Len(cat.sources) = 2
    /\ Len(cat.objects) = 2
    /\ \E r \in Range(cat.mes_teff_st) :
           r.teff_st_source_idref = 2 /\ r.object_idref = 1
    /\ \E r \in Range(cat.star_basic) : r.object_idref = 2

----------------------------------------------------------------------------
(* Claims on the rows of match *)

\* the step calls match on a table with rows
MatchCalled == pc = "mes_teff_st" /\ Len(providers[j].mes_teff_st) > 0

\* the columns that the row had before match
BeforeColumns(r) ==
    [main_id |-> r.main_id,
     teff_st_value |-> r.teff_st_value,
     teff_st_qual |-> r.teff_st_qual,
     teff_st_ref |-> r.teff_st_ref]

\* the row as nullvalues leaves it, line 1744: a masked reference is 'None'
WithNoneRef(r) ==
    [r EXCEPT !.teff_st_ref = IF @ = MaskedInt THEN NoneRef ELSE @]

\* how often the table t has a row that Image takes to x
Times(t, x, Image(_)) == Cardinality({i \in DOMAIN t : Image(t[i]) = x})

\* C26 as stated: match gives one output row per input row, none dropped or
\* doubled, and the columns other than teff_st_source_idref have the same
\* values as before.
C26_MatchKeepsRows ==
    [][MatchCalled =>
          LET in == providers[j].mes_teff_st
              out == providers'[j].mes_teff_st
          IN  /\ Len(out) = Len(in)
              /\ \A r \in Range(in) :
                     Times(out, r, BeforeColumns)
                         = Times(in, r, BeforeColumns)]_vars

\* C26 amended: one output row per input row, none dropped or doubled; the
\* columns other than teff_st_source_idref have the same values as before,
\* but a masked teff_st_ref has become 'None'.
C26_MatchKeepsRowsNoneRef ==
    [][MatchCalled =>
          LET in == providers[j].mes_teff_st
              out == providers'[j].mes_teff_st
          IN  /\ Len(out) = Len(in)
              /\ \A r \in Range(in) :
                     Times(out, WithNoneRef(r), BeforeColumns)
                         = Times(in, WithNoneRef(r), WithNoneRef)]_vars

\* C26 witness: match has run on a table of two rows, one with a reference
\* that has a source and one with a masked reference, now 'None'
C26_Witness ==
    \E p \in 1..NumProviders :
        /\ Matched(p)
        /\ Len(providers[p].mes_teff_st) = 2
        /\ \E r \in Range(providers[p].mes_teff_st) :
               r.teff_st_ref = NoneRef /\ r.teff_st_source_idref = MaskedInt
        /\ \E r \in Range(providers[p].mes_teff_st) :
               r.teff_st_ref = 1 /\ r.teff_st_source_idref \in SourceIds

----------------------------------------------------------------------------
(* Claims on the re-keying with object_idref *)

\* the main_ids of the Object table
ObjectMainIds == {cat.objects[i].main_id : i \in 1..Len(cat.objects)}

\* the row s has the null object_idref if the main_id of r is no object
NullIfUnknown(r, s) ==
    r.main_id \notin ObjectMainIds => s.object_idref = IntFillValue

\* C27: the re-keying of a basic or measurement table drops no row: a row
\* whose main_id is not in the Object table stays, with the null
\* object_idref.
C27_RekeyKeepsRows ==
    [][/\ (pc = "star_basic_rekey" /\ Len(cat.star_basic) > 0) =>
              /\ pc' # "error"
              /\ \A r \in Range(cat.star_basic) :
                     \E s \in Range(cat'.star_basic) :
                         /\ s.main_id = r.main_id
                         /\ s.plx_value = r.plx_value
                         /\ NullIfUnknown(r, s)
       /\ (pc = "mes_teff_st_best" /\ pc' = "unify") =>
              \A r \in Range(cat.mes_teff_st) :
                  \E s \in Range(cat'.mes_teff_st) :
                      /\ s.main_id = r.main_id
                      /\ s.teff_st_value = r.teff_st_value
                      /\ s.teff_st_ref = r.teff_st_ref
                      /\ NullIfUnknown(r, s)]_vars

\* C28: every object of type 'st' or 'sy' has a row in the final star_basic
\* with its object_id as object_idref, also when no provider gave a
\* star_basic row for it.
C28_StarsCovered ==
    pc = "done" =>
        \A o \in Range(cat.objects) :
            o.type \in {"st", "sy"} =>
                \E r \in Range(cat.star_basic) : r.object_idref = o.object_id

----------------------------------------------------------------------------
(* Claims on the order of the providers *)

\* an object row of a provider: one of two identifiers, a type
OrderRows == [main_id : 1..MaxMainId, ids : {<<"a">>, <<"b">>},
              type : ProviderTypes]

\* every provider gives at most one object
InitOrder ==
    /\ \E o \in [1..NumProviders -> Tables(OrderRows, 1)] :
           providers = [p \in 1..NumProviders |->
                           Extract(p, o[p], <<>>, <<>>, <<>>)]
    /\ BuildStart
    /\ IdsIdle
    /\ SrcIdle
    /\ MainIdle

SpecOrder == InitOrder /\ [][Next]_vars

\* the orders in which the providers can be folded
Orders ==
    {o \in [1..NumProviders -> 1..NumProviders] :
        \A a, b \in 1..NumProviders : a # b => o[a] # o[b]}

\* lines 1713-1720 with the providers taken in the order o from position n
\* on: the Object tables the fold can give from the accumulated table acc
RECURSIVE objects_fold(_, _, _)
objects_fold(acc, o, n) ==
    IF n > NumProviders THEN {acc}
    ELSE LET t == providers[o[n]].objects
         IN  IF Len(acc) > 0
             THEN IF Len(t) > 0
                  THEN UNION {objects_fold(m, o, n + 1) :
                                 m \in objectmerging(join_objects(acc, t))}
                  ELSE objects_fold(acc, o, n + 1)
             ELSE objects_fold(t, o, n + 1)

\* the main_ids of the Object table t, each with its set of identifiers
IdSets(t) == {<<t[i].main_id, ElemSet(t[i].ids)>> : i \in 1..Len(t)}

\* the main_ids of the Object table t, each with its type
TypesOf(t) == {<<t[i].main_id, t[i].type>> : i \in 1..Len(t)}

\* C29: the main_ids of the merged Object table and the set of identifiers
\* of each merged object are the same for every order of the providers.
C29_OrderIndependent ==
    pc = "object_id" =>
        \A o \in Orders :
            \A t \in objects_fold(<<>>, o, 1) :
                IdSets(t) = IdSets(cat.objects)

\* C29 witness: the fold has merged an object that two providers gave with
\* different identifiers and types; another order gives another type
C29_Witness ==
    /\ pc = "object_id"
    /\ \E r \in Range(cat.objects) : Cardinality(ElemSet(r.ids)) = 2
    /\ \E o \in Orders :
           \E t \in objects_fold(<<>>, o, 1) :
               TypesOf(t) # TypesOf(cat.objects)

----------------------------------------------------------------------------
(* The main code: the provider calls in the order the script makes them,   *)
(* on a data directory that keeps its files from one run to the next.      *)
(* A query to a service either answers or raises; a load of a file that    *)
(* does not exist raises; an exception ends the run.                       *)

\* load([name]) by a provider: the file read and the run that wrote it
load(provider, name) ==
    [provider |-> provider, file |-> name, written |-> data[name]]

\* the files a provider loads, in the order of its load() calls
LoadsOf(provider) ==
    CASE provider = "wds" -> <<"sim_ident", "sim_h_link">>
      [] provider = "exo" -> <<"sim_objects">>
      [] provider = "life" -> <<"sim_star_basic", "sim_objects">>
      [] OTHER -> <<>>

\* the load() calls of a provider up to and including the first that raises
LoadsDone(provider) ==
    LET names == LoadsOf(provider)
        missing == {i \in 1..Len(names) : data[names[i]] = NoFile}
        last == IF missing = {} THEN Len(names)
                ELSE CHOOSE i \in missing : \A k \in missing : i <= k
    IN  {load(provider, names[i]) : i \in 1..last}

LoadRaises(provider) ==
    \E i \in 1..Len(LoadsOf(provider)) : data[LoadsOf(provider)[i]] = NoFile

\* wds=provider_wds(table_names,empty_provider[:],False)
ProviderWds ==
    /\ mpc = "wds"
    /\ \E answered \in BOOLEAN :
           IF answered
           THEN /\ loaded' = loaded \cup LoadsDone("wds")
                /\ mpc' = IF LoadRaises("wds") THEN "error" ELSE "sim"
           ELSE /\ loaded' = loaded
                /\ mpc' = "error"
    /\ UNCHANGED <<run, data>>
    /\ UNCHANGED idsvars
    /\ UNCHANGED buildvars
    /\ UNCHANGED srcvars

\* sim=provider_simbad(table_names,empty_provider[:])
ProviderSimbad ==
    /\ mpc = "sim"
    /\ \E answered \in BOOLEAN :
           IF answered
           THEN /\ data' = [f \in SimFiles |-> run]
                /\ mpc' = "gk"
           ELSE /\ data' = data
                /\ mpc' = "error"
    /\ UNCHANGED <<run, loaded>>
    /\ UNCHANGED idsvars
    /\ UNCHANGED buildvars
    /\ UNCHANGED srcvars

\* gk=provider_gk(table_names,empty_provider[:])
ProviderGk ==
    /\ mpc = "gk"
    /\ \E answered \in BOOLEAN :
           IF answered
           THEN /\ loaded' = loaded \cup LoadsDone("gk")
                /\ mpc' = IF LoadRaises("gk") THEN "error" ELSE "exo"
           ELSE /\ loaded' = loaded
                /\ mpc' = "error"
    /\ UNCHANGED <<run, data>>
    /\ UNCHANGED idsvars
    /\ UNCHANGED buildvars
    /\ UNCHANGED srcvars

\* exo=provider_exo(table_names,empty_provider[:],temp=False)
ProviderExo ==
    /\ mpc = "exo"
    /\ \E answered \in BOOLEAN :
           IF answered
           THEN /\ loaded' = loaded \cup LoadsDone("exo")
                /\ mpc' = IF LoadRaises("exo") THEN "error" ELSE "life"
           ELSE /\ loaded' = loaded
                /\ mpc' = "error"
    /\ UNCHANGED <<run, data>>
    /\ UNCHANGED idsvars
    /\ UNCHANGED buildvars
    /\ UNCHANGED srcvars

\* life=provider_life(table_names,empty_provider[:])
ProviderLife ==
    /\ mpc = "life"
    /\ loaded' = loaded \cup LoadsDone("life")
    /\ mpc' = IF LoadRaises("life") THEN "error" ELSE "gaia"
    /\ UNCHANGED <<run, data>>
    /\ UNCHANGED idsvars
    /\ UNCHANGED buildvars
    /\ UNCHANGED srcvars

\* gaia=provider_gaia(table_names,empty_provider[:])
ProviderGaia ==
    /\ mpc = "gaia"
    /\ \E answered \in BOOLEAN :
           IF answered
           THEN /\ loaded' = loaded \cup LoadsDone("gaia")
                /\ mpc' = IF LoadRaises("gaia") THEN "error" ELSE "building"
           ELSE /\ loaded' = loaded
                /\ mpc' = "error"
    /\ UNCHANGED <<run, data>>
    /\ UNCHANGED idsvars
    /\ UNCHANGED buildvars
    /\ UNCHANGED srcvars

\* database_tables=building([sim[:],gk[:],exo[:],life[:],gaia[:],wds[:]],...)
Building ==
    /\ mpc = "building"
    /\ mpc' = "done"
    /\ UNCHANGED <<run, data, loaded>>
    /\ UNCHANGED idsvars
    /\ UNCHANGED buildvars
    /\ UNCHANGED srcvars

\* the script is started again on the data directory the last run left
NextRun ==
    /\ mpc \in {"done", "error"}
    /\ run < MaxRuns
    /\ run' = run + 1
    /\ mpc' = "wds"
    /\ loaded' = {}
    /\ UNCHANGED data
    /\ UNCHANGED idsvars
    /\ UNCHANGED buildvars
    /\ UNCHANGED srcvars

\* the first run starts on a data directory in which each file of the
\* SIMBAD extract is missing or left by an earlier run (run 0)
InitMain ==
    /\ mpc = "wds"
    /\ run = 1
    /\ data \in [SimFiles -> {0, NoFile}]
    /\ loaded = {}
    /\ IdsIdle
    /\ BuildIdle
    /\ SrcIdle

NextMain ==
    \/ ProviderWds
    \/ ProviderSimbad
    \/ ProviderGk
    \/ ProviderExo
    \/ ProviderLife
    \/ ProviderGaia
    \/ Building
    \/ NextRun

SpecMain == InitMain /\ [][NextMain]_vars

\* C30: within one run, every provider step that loads a file of SIMBAD's
\* persisted extract (sim_objects, sim_ident, sim_h_link, sim_star_basic)
\* runs after provider_simbad has written that file in the same run: no
\* load of a run reads a file that an earlier run wrote.
C30_LoadsAfterSimbadWrote ==
    \A l \in loaded : l.file \in SimFiles => l.written = run

====
